---- MODULE Spec2Model ----
(***************************************************************************)
(* Model of experiments/timit/data/read_dataset_multitask_ctc.py:          *)
(* DataSet.__init__ (loading, sorting by frame count) and                  *)
(* DataSet.next_batch (epoch-cyclic index selection, padding, GPU split).  *)
(*                                                                         *)
(* Python indices are 0-based and are kept as they are (0..data_num-1);    *)
(* Python lists are TLA+ sequences (1-based positions).  A feature matrix  *)
(* is the sequence of its frames; one frame (a row of input_size numbers)  *)
(* is one non-zero number, the all-zero row is 0.  Left out: the file      *)
(* names (input_names), the optional frame stacking done by the external   *)
(* stack_frame, the sparse-tensor conversion and the printed messages.     *)
(***************************************************************************)
EXTENDS Integers, Sequences, FiniteSets, TLC

\* ---------------------------------------------------------------- bounds
MaxDataNum == 3
MaxFrameNum == 2
MaxLabelLen == 2
MaxBatchSize == 2
MaxGpu == 2

\* ------------------------------------------------------- generic helpers
Range(s) == {s[i] : i \in DOMAIN s}

Max(S) == CHOOSE m \in S : \A x \in S : x <= m

Min(S) == CHOOSE m \in S : \A x \in S : m <= x

\* All sequences of length n of pairwise distinct elements of S.
RECURSIVE InjSeqs(_, _)
InjSeqs(S, n) ==
    IF n = 0 THEN {<<>>}
    ELSE UNION {{Append(s, x) : x \in S \ Range(s)} : s \in InjSeqs(S, n - 1)}

VARIABLES pc, args, error,
          batch_size, num_gpu, is_sorted, data_num,
          input_list, label_char_list, label_phone_list,
          rest, call, epoch

selfvars == <<batch_size, num_gpu, is_sorted, data_num,
              input_list, label_char_list, label_phone_list>>

vars == <<pc, args, error, batch_size, num_gpu, is_sorted, data_num,
          input_list, label_char_list, label_phone_list, rest, call, epoch>>

\* ------------------------------------------------------------ __init__
\* The values of data_type the constructor accepts (line 36).
DataTypes == {"train", "dev", "test"}

\* The contents of the .npy files, a function of the example's position in
\* the sorted corpus and of the frame / label position.  Frames are non-zero
\* and labels are vocabulary indices >= 0, so neither equals its padding.
Frame(x, f) == 10 * (x + 1) + f

CharLabel(x, j) == x + j

PhoneLabel(x, j) == 2 * x + j

CharLen(x) == x % (MaxLabelLen + 1)

PhoneLen(x) == (2 * x + 1) % (MaxLabelLen + 1)

\* sorted(self.frame_num_dict.items(), key=lambda x: x[1]): the items of the
\* dictionary in ascending frame count, ties in the order of the items.
RECURSIVE SortedItems(_, _)
SortedItems(d, todo) ==
    IF todo = {} THEN <<>>
    ELSE LET m == Min({d[n] : n \in todo})
             first == Min({n \in todo : d[n] = m})
         IN <<(<<first, m>>)>> \o SortedItems(d, todo \ {first})

frame_num_tuple_sorted(d) == SortedItems(d, DOMAIN d)

\* The three path lists built by the loop of lines 66-73: one entry per item
\* of frame_num_tuple_sorted, each named after the input.
input_paths(d) == [i \in 1..Len(frame_num_tuple_sorted(d)) |->
                      frame_num_tuple_sorted(d)[i][1]]

label_char_paths(d) == [i \in 1..Len(frame_num_tuple_sorted(d)) |->
                           frame_num_tuple_sorted(d)[i][1]]

label_phone_paths(d) == [i \in 1..Len(frame_num_tuple_sorted(d)) |->
                            frame_num_tuple_sorted(d)[i][1]]

\* The exception __init__ raises for the call a, or "none".  a.char_files and
\* a.phone_files are the names that have a label file in the character and
\* in the phone dataset; np.load raises IOError for a path without a file.
CtorError(a) ==
    IF a.data_type \notin DataTypes THEN "ValueError_data_type"
    ELSE IF a.batch_size % a.num_gpu # 0 THEN "ValueError_batch_size"
    ELSE IF Len(label_char_paths(a.frame_num_dict))
            # Len(label_phone_paths(a.frame_num_dict))
         THEN "ValueError_label_mismatch"
    ELSE IF \E i \in 1..Len(input_paths(a.frame_num_dict)) :
               \/ label_char_paths(a.frame_num_dict)[i] \notin a.char_files
               \/ label_phone_paths(a.frame_num_dict)[i] \notin a.phone_files
         THEN "IOError"
    ELSE "none"

NoArgs == [data_type |-> "", batch_size |-> 0, num_gpu |-> 1,
           is_sorted |-> FALSE, frame_num_dict |-> <<>>,
           char_files |-> {}, phone_files |-> {}]

\* The record of the last next_batch call: how it ended, the batch size it
\* used, self.rest when it was entered, the branch it took, the index list
\* the rows were built from, whether random.shuffle ran, max_frame_num.
NoCall == [status |-> "none", batch_size |-> 0,
           rest_before |-> {}, final |-> FALSE,
           indices |-> <<>>, shuffled |-> FALSE, max_frame_num |-> 0]

NoEpoch == [drawn |-> <<>>, complete |-> FALSE]

\* A constructor call about to run: its arguments, a pickled frame count
\* dictionary over the names 1..n for an n of sizes, and the label files
\* present, all of them or all but the last name.  No DataSet exists yet.
InitArgs(sizes, gpus) ==
    /\ pc = "new"
    /\ args \in [data_type : {"train", "eval"},
                 batch_size : 0..MaxBatchSize,
                 num_gpu : gpus,
                 is_sorted : BOOLEAN,
                 frame_num_dict : UNION {[1..n -> 1..MaxFrameNum] : n \in sizes},
                 char_files : {1..k : k \in (Max(sizes) - 1)..Max(sizes)},
                 phone_files : {1..k : k \in (Max(sizes) - 1)..Max(sizes)}]
    /\ error = "none"
    /\ batch_size = 0
    /\ num_gpu = 1
    /\ is_sorted = FALSE
    /\ data_num = 0
    /\ input_list = <<>>
    /\ label_char_list = <<>>
    /\ label_phone_list = <<>>
    /\ rest = {}
    /\ call = NoCall
    /\ epoch = NoEpoch

Init == InitArgs(1..MaxDataNum, 1..MaxGpu)

\* Several GPUs and a corpus one example larger than the largest default
\* batch (batch_size * num_gpu), so that a default batch is not the last.
InitSplit == InitArgs({MaxBatchSize * MaxGpu + 1}, 2..MaxGpu)

\* DataSet.__init__: either raises (no DataSet) or leaves the loaded object.
Construct ==
    /\ pc = "new"
    /\ error' = CtorError(args)
    /\ args' = NoArgs
    /\ UNCHANGED call
    /\ IF CtorError(args) # "none"
       THEN /\ pc' = "failed"
            /\ UNCHANGED <<selfvars, rest, epoch>>
       ELSE LET sorted == frame_num_tuple_sorted(args.frame_num_dict)
                n == Len(input_paths(args.frame_num_dict))
            IN /\ pc' = "ready"
               /\ batch_size' = args.batch_size * args.num_gpu
               /\ num_gpu' = args.num_gpu
               /\ is_sorted' = args.is_sorted
               /\ data_num' = n
               /\ input_list' = [x \in 0..n-1 |->
                                    [f \in 1..sorted[x + 1][2] |-> Frame(x, f)]]
               /\ label_char_list' = [x \in 0..n-1 |->
                                         [j \in 1..CharLen(x) |-> CharLabel(x, j)]]
               /\ label_phone_list' = [x \in 0..n-1 |->
                                          [j \in 1..PhoneLen(x) |-> PhoneLabel(x, j)]]
               /\ rest' = 0..n-1
               /\ epoch' = [drawn |-> [x \in 0..n-1 |-> 0], complete |-> FALSE]

\* ---------------------------------------------------------- next_batch
\* list(self.rest): the elements of the set in the iteration order of the
\* hash table.  Python leaves that order unspecified, and CPython does not
\* keep it ascending once elements were removed in place and the table was
\* resized, so the list is any enumeration of the set.
ListOf(S) == InjSeqs(S, Cardinality(S))

\* list(self.rest)[:n] for 0 <= n < |S|: the first n elements of any
\* enumeration, which is any n distinct elements in any order.
ListPrefix(S, n) == InjSeqs(S, n)

\* random.sample(list(S), n), 0 <= n <= |S|: n distinct elements in any order.
Sample(S, n) == InjSeqs(S, n)

\* random.shuffle(l) leaves any rearrangement of l: of the lists over the
\* elements S, any one.
Shuffled(S) == InjSeqs(S, Cardinality(S))

\* data_i.shape[0]
frame_num(x) == Len(input_list[x])

\* Every array allocated with np.zeros, the label arrays too.
FilledZeros(n, m, v) == [i \in 1..n |-> [k \in 1..m |-> 0]]

\* np.zeros((n, m, input_size)) and np.array([[-1] * m] * n).
Filled(n, m, v) == [i \in 1..n |-> [k \in 1..m |-> v]]

\* row[:len(data)] = data, for len(data) <= len(row).
SetPrefix(row, data) == [k \in 1..Len(row) |-> IF k <= Len(data) THEN data[k] ELSE row[k]]

\* tf.split(value, g, axis=0) for a value whose length g divides.
Split(value, g) ==
    [c \in 1..g |-> SubSeq(value, (c - 1) * (Len(value) \div g) + 1,
                                  c * (Len(value) \div g))]

\* Lines 153-174 and 204-225: allocate the padded arrays and copy each
\* example into its row, in the order of indices.
Inputs(indices, max_frame_num) ==
    [i \in 1..Len(indices) |->
        SetPrefix(Filled(Len(indices), max_frame_num, 0)[i], input_list[indices[i]])]

LabelsChar(indices) ==
    LET max_seq_len_char == Max({Len(label_char_list[x]) : x \in Range(indices)})
    IN [i \in 1..Len(indices) |->
           SetPrefix(Filled(Len(indices), max_seq_len_char, -1)[i],
                     label_char_list[indices[i]])]

LabelsPhone(indices) ==
    LET max_seq_len_phone == Max({Len(label_phone_list[x]) : x \in Range(indices)})
    IN [i \in 1..Len(indices) |->
           SetPrefix(Filled(Len(indices), max_seq_len_phone, -1)[i],
                     label_phone_list[indices[i]])]

InputsSeqLen(indices) == [i \in 1..Len(indices) |-> frame_num(indices[i])]

\* The part of next_batch after the selection, as the record of the call:
\* an empty selection raises (empty names the exception of the branch), a
\* row longer than max_frame_num cannot be copied (line 167 / 218), tf.split
\* needs a length num_gpu divides.  maxf is max_frame_num as the branch
\* computed it.
Assemble(b, final, indices, shuffled, maxf, empty) ==
    [status |-> IF indices = <<>> THEN empty
                ELSE IF \E x \in Range(indices) : frame_num(x) > maxf
                     THEN "ValueError_broadcast"
                ELSE IF num_gpu > 1 /\ Len(indices) % num_gpu # 0
                     THEN "ValueError_split"
                ELSE "ok",
     batch_size |-> b, rest_before |-> rest, final |-> final,
     indices |-> indices, shuffled |-> shuffled, max_frame_num |-> maxf]

\* What the last call built, when it returned: the padded arrays before the
\* split, and the lists of num_gpu chunks the split makes of them.
inputs == Inputs(call.indices, call.max_frame_num)

labels_char == LabelsChar(call.indices)

labels_phone == LabelsPhone(call.indices)

inputs_seq_len == InputsSeqLen(call.indices)

inputs_split == Split(inputs, num_gpu)

labels_char_split == Split(labels_char, num_gpu)

labels_phone_split == Split(labels_phone, num_gpu)

inputs_seq_len_split == Split(inputs_seq_len, num_gpu)

\* The values a caller passes for batch_size (None, written <<>>, or a
\* size) and for session.
BatchSizeArgs == {<<>>} \cup {<<b>> : b \in 0..MaxBatchSize}

Sessions == {"None", "session"}

\* Lines 125-126: the batch size the call uses.
Requested(arg) == IF arg = <<>> THEN batch_size ELSE arg[1]

\* The comparison written >= : a rest of exactly b indices is not the last batch.
FinalBelow(b) == ~(Cardinality(rest) >= b)

\* Lines 132/135 and 180/185: the else branch (last batch of the epoch) is
\* taken unless more than b indices remain.
Final(b) == ~(Cardinality(rest) > b)

\* The selected indices are never removed from self.rest.
RestAfterKept(indices, final) ==
    IF final THEN 0..data_num-1 ELSE rest

\* The last batch removes its indices and does not refill self.rest.
RestAfterNoReset(indices, final) == rest \ Range(indices)

\* Lines 134/137 and 184/187: self.rest after the selection.
RestAfter(indices, final) ==
    IF final THEN 0..data_num-1 ELSE rest \ Range(indices)

\* Line 151: in sorted mode random.shuffle runs on every selection that got
\* past line 142.  Lines 185-192: in random mode it is inside the else branch.
ShuffledSorted(final) == TRUE

\* random.shuffle dedented out of the else branch.
ShuffledRandomAlways(final) == TRUE

ShuffledRandom(final) == final

\* The count, per index, of its selections since the last rollover; the call
\* that follows a rollover starts the count of a new epoch.  complete tells
\* that the last selection was the rollover.
Drawn(indices, final) ==
    [drawn |-> [x \in 0..data_num-1 |->
                   (IF epoch.complete THEN 0 ELSE epoch.drawn[x])
                   + Cardinality({i \in 1..Len(indices) : indices[i] = x})],
     complete |-> final]

\* Lines 122-123: no session with several GPUs.
NextBatchNoSession ==
    /\ pc = "ready"
    /\ num_gpu # 1
    /\ \E arg \in BatchSizeArgs :
          call' = [NoCall EXCEPT !.status = "ValueError_session",
                                 !.batch_size = Requested(arg),
                                 !.rest_before = rest]
    /\ UNCHANGED <<pc, args, error, selfvars, rest, epoch>>

\* Lines 131-174, then 227-245.  max_frame_num is read from the last element
\* of the selected list, then the list is shuffled: the rows are in any order
\* and the element that was last is any of them.
NextBatchSorted ==
    /\ pc = "ready"
    /\ is_sorted
    /\ \E session \in Sessions : ~(session = "None" /\ num_gpu # 1)
    /\ \E arg \in BatchSizeArgs :
          LET b == Requested(arg)
              final == Final(b)
          IN \E sorted_indices \in (IF final THEN ListOf(rest) ELSE ListPrefix(rest, b)) :
                /\ rest' = RestAfter(sorted_indices, final)
                /\ epoch' = Drawn(sorted_indices, final)
                /\ IF sorted_indices = <<>>
                   THEN call' = Assemble(b, final, <<>>, FALSE, 0, "IndexError")
                   ELSE \E maxf \in {frame_num(last) : last \in Range(sorted_indices)} :
                           call' = Assemble(b, final, sorted_indices,
                                            ShuffledSorted(final), maxf, "IndexError")
    /\ UNCHANGED <<pc, args, error, selfvars>>

\* Lines 180-225, then 227-245.
NextBatchRandom ==
    /\ pc = "ready"
    /\ ~is_sorted
    /\ \E session \in Sessions : ~(session = "None" /\ num_gpu # 1)
    /\ \E arg \in BatchSizeArgs :
          LET b == Requested(arg)
              final == Final(b)
          IN \E random_indices \in (IF final THEN Shuffled(rest) ELSE Sample(rest, b)) :
                /\ rest' = RestAfter(random_indices, final)
                /\ epoch' = Drawn(random_indices, final)
                /\ call' = Assemble(b, final, random_indices, ShuffledRandom(final),
                                    IF random_indices = <<>> THEN 0
                                    ELSE Max({frame_num(x) : x \in Range(random_indices)}),
                                    "ValueError_max")
    /\ UNCHANGED <<pc, args, error, selfvars>>

Next == Construct \/ NextBatchNoSession \/ NextBatchSorted \/ NextBatchRandom

Spec == Init /\ [][Next]_vars

\* The caller keeps calling next_batch with a batch size of at least 1.
DrawPositive == (NextBatchSorted \/ NextBatchRandom) /\ call'.batch_size >= 1

LiveSpec == Spec /\ WF_vars(DrawPositive)

SplitSpec == InitSplit /\ [][Next]_vars

\* ------------------------------------------------------------ properties
\* The last call got as far as selecting indices / returned a batch.
Selected == pc = "ready" /\ call.status \notin {"none", "ValueError_session"}

Produced == pc = "ready" /\ call.status = "ok"

FrameNums(S) == {frame_num(x) : x \in S}

AllIndices == 0..data_num-1

\* row holds data in its leading cells and pad in all the others.
PaddedRow(row, data, pad) ==
    /\ Len(data) <= Len(row)
    /\ \A k \in 1..Len(row) : row[k] = IF k <= Len(data) THEN data[k] ELSE pad

\* C1 (safety part): since the last rollover no index was selected twice,
\* self.rest is exactly the set of indices not yet selected, and at a
\* rollover every index of 0..data_num-1 was selected exactly once.
EpochInv ==
    pc = "ready" =>
        /\ \A x \in AllIndices : epoch.drawn[x] <= 1
        /\ epoch.complete =>
              /\ \A x \in AllIndices : epoch.drawn[x] = 1
              /\ rest = AllIndices
        /\ ~epoch.complete => rest = {x \in AllIndices : epoch.drawn[x] = 0}

\* C1: the batches selected between two rollovers are pairwise disjoint and
\* cover 0..data_num-1 exactly once, and with the caller drawing batches of
\* positive size a rollover is always reached.
C1_EpochPartition ==
    /\ []EpochInv
    /\ (pc = "ready" /\ ~epoch.complete) ~> epoch.complete

\* An epoch of three examples drawn as a batch of two and a last batch of one.
C1_Witness ==
    /\ pc = "ready" /\ data_num = 3 /\ epoch.complete
    /\ call.batch_size = 2 /\ Len(call.indices) = 1
    /\ \A x \in AllIndices : epoch.drawn[x] = 1

\* C2: in sorted mode, after a batch that is not the last of its epoch, the
\* largest frame count of the batch is at most the smallest frame count of
\* the examples still in self.rest.
C2_SortedBatchBelowRest ==
    (Selected /\ is_sorted /\ ~call.final /\ call.indices # <<>>) =>
        Max(FrameNums(Range(call.indices))) <= Min(FrameNums(rest))

\* C3: max_frame_num, as next_batch computes it, is the largest frame count
\* of the selected examples, so no example is longer than the array rows.
C3_MaxFrameNumIsMax ==
    (Selected /\ call.indices # <<>>) =>
        /\ call.max_frame_num = Max(FrameNums(Range(call.indices)))
        /\ call.status # "ValueError_broadcast"

\* C4: in every returned batch, row i holds the features of its example
\* followed by zeros only, and each label row holds the labels of its
\* example followed by -1 only.
C4_PaddingCorrect ==
    Produced =>
        /\ Len(inputs) = Len(call.indices)
        /\ Len(labels_char) = Len(call.indices)
        /\ Len(labels_phone) = Len(call.indices)
        /\ \A i \in 1..Len(call.indices) :
              /\ PaddedRow(inputs[i], input_list[call.indices[i]], 0)
              /\ PaddedRow(labels_char[i], label_char_list[call.indices[i]], -1)
              /\ PaddedRow(labels_phone[i], label_phone_list[call.indices[i]], -1)
              /\ inputs_seq_len[i] = frame_num(call.indices[i])

\* A returned batch with a padded feature row, a padded character-label row
\* and a padded phone-label row.
C4_Witness ==
    /\ Produced
    /\ \E i \in 1..Len(call.indices) :
          frame_num(call.indices[i]) < Len(inputs[i])
    /\ \E i \in 1..Len(call.indices) :
          /\ label_char_list[call.indices[i]] # <<>>
          /\ Len(label_char_list[call.indices[i]]) < Len(labels_char[i])
    /\ \E i \in 1..Len(call.indices) :
          Len(label_phone_list[call.indices[i]]) < Len(labels_phone[i])

\* The batch_size argument the DataSet was constructed with: line 43 stores
\* batch_size * num_gpu in self.batch_size.
CtorBatchSize == batch_size \div num_gpu

\* The chunks of a split joined in order.
RECURSIVE Concat(_)
Concat(chunks) ==
    IF chunks = <<>> THEN <<>>
    ELSE Concat(SubSeq(chunks, 1, Len(chunks) - 1)) \o chunks[Len(chunks)]

\* C5: a DataSet constructed with batch_size B and num_gpu G > 1 returns a
\* batch that is not the last of its epoch, drawn with the default batch
\* size, as G chunks of B/G examples each, which concatenate to the batch
\* of B examples.
C5_SplitChunks ==
    (Produced /\ num_gpu > 1 /\ ~call.final /\ call.batch_size = batch_size) =>
        /\ Len(call.indices) = CtorBatchSize
        /\ Len(inputs_split) = num_gpu
        /\ \A c \in 1..num_gpu : Len(inputs_split[c]) = CtorBatchSize \div num_gpu
        /\ Concat(inputs_split) = inputs
        /\ Concat(labels_char_split) = labels_char
        /\ Concat(labels_phone_split) = labels_phone
        /\ Concat(inputs_seq_len_split) = inputs_seq_len

\* C6: a next_batch call that raised left self.rest as it was on entry.
C6_FailedCallKeepsRest ==
    (pc = "ready" /\ call.status \notin {"none", "ok"}) => rest = call.rest_before

\* C7 as stated: with data_num > 0 every call selects at least one index,
\* whatever batch size it is given, and leaves self.rest non-empty.
C7_NeverEmpty ==
    (Selected /\ data_num > 0) =>
        /\ call.indices # <<>>
        /\ call.status \notin {"IndexError", "ValueError_max"}
        /\ rest # {}

\* C7 as amended: with data_num > 0 self.rest is non-empty after every
\* call, and every call with a batch size of at least 1 selects at least one
\* index and does not raise the empty-selection error.
C7_NeverEmptyPositive ==
    /\ (pc = "ready" /\ data_num > 0) => rest # {}
    /\ (Selected /\ data_num > 0 /\ call.batch_size >= 1) =>
          /\ call.indices # <<>>
          /\ call.status \notin {"IndexError", "ValueError_max"}

\* A call with an override different from the default size, after an
\* earlier call consumed part of the epoch.
C7_Witness ==
    /\ Selected /\ data_num > 0
    /\ call.batch_size >= 1 /\ call.batch_size # batch_size
    /\ call.rest_before # AllIndices
    /\ call.indices # <<>>

\* C8: a constructor call that passes the argument checks and finds
\* character-label entries and phone-label entries of different number
\* raises the label-count-mismatch ValueError and produces no DataSet.
C8_LabelMismatchRaises ==
    [][(/\ pc = "new"
        /\ args.data_type \in DataTypes
        /\ args.batch_size % args.num_gpu = 0
        /\ Cardinality(args.char_files) # Cardinality(args.phone_files))
       => (pc' = "failed" /\ error' = "ValueError_label_mismatch")]_vars

\* C9: with R = self.rest on entry and b the batch size of the call, the
\* call selects b distinct indices of R and leaves R minus them if |R| > b,
\* and otherwise selects exactly R, 1 <= |R| <= b, and resets self.rest to
\* the full range.
C9_OneCall ==
    Selected =>
        LET R == call.rest_before
            b == call.batch_size
            sel == Range(call.indices)
        IN /\ Cardinality(sel) = Len(call.indices)
           /\ IF Cardinality(R) > b
              THEN /\ Len(call.indices) = b
                   /\ sel \subseteq R
                   /\ rest = R \ sel
              ELSE /\ sel = R
                   /\ 1 <= Cardinality(R)
                   /\ Cardinality(R) <= b
                   /\ rest = AllIndices

\* Three examples and batch size 2: after the batch of two, the call that
\* finds one index left returns it and performs the rollover.
C9_Witness ==
    /\ Selected /\ data_num = 3 /\ call.batch_size = 2
    /\ Cardinality(call.rest_before) = 1
    /\ Len(call.indices) = 1
    /\ rest = AllIndices

\* C10 as stated: random.shuffle runs on every batch in sorted mode, and in
\* random mode on the batches that are not the last of their epoch only.
C10_ShufflePolicy ==
    (Selected /\ call.indices # <<>>) =>
        /\ is_sorted => call.shuffled
        /\ ~is_sorted => (call.shuffled <=> ~call.final)

\* C10 as amended: random.shuffle runs on every batch in sorted mode, and in
\* random mode on the last batch of an epoch only.
C10_ShuffleOnFinal ==
    (Selected /\ call.indices # <<>>) =>
        /\ is_sorted => call.shuffled
        /\ ~is_sorted => (call.shuffled <=> call.final)

\* A random-mode batch that is not the last of its epoch.
C10_Witness ==
    /\ Selected /\ ~is_sorted /\ ~call.final
    /\ call.indices # <<>> /\ ~call.shuffled
====
